---- MODULE Spec2Model ----
(***************************************************************************)
(* Model of the temporal naming layer of the dynamic Bayesian network      *)
(* library: the name codec of dCommon (src/src/DynamicBayesNet.py) and the *)
(* DynamicBayesNet facade over a pyAgrum BayesNet.                         *)
(*                                                                         *)
(* Python strings are sequences of one-character strings.  A Python value  *)
(* whose type matters is a record [type, val].  The engine graph is the    *)
(* set of its node names and the set of its arcs, an arc being the pair    *)
(* <<tail node name, head node name>>.                                     *)
(***************************************************************************)
EXTENDS Integers, Sequences, FiniteSets, TLC

VARIABLES
    k,              \* DynamicBayesNet.k         : horizon of the facade
    separator,      \* dCommon.separator
    variables,      \* DynamicBayesNet.variables : registered atemporal names
    nodes,          \* names of the nodes of DynamicBayesNet.kTBN
    arcs,           \* arcs of DynamicBayesNet.kTBN
    lastCall,       \* the last facade call: the operation and its exception
    liveArcs,       \* history: the arcs (tail key, head key) added by a call
                    \* of addArc that returned and not removed since
    cName,          \* codec run: the name given to _userToCodeName
    cSlice,         \* codec run: the time slice given to _userToCodeName
    cSep,           \* codec run: the separator of the dCommon object
    cFlat,          \* codec run: the code name returned by _userToCodeName
    cUser,          \* codec run: the result of _codeToUserName
    cPc,            \* codec run: position, "start" -> "encoded" -> "decoded"
    heap,           \* the pyAgrum.BayesNet objects, by object identity
    dbn,            \* unrollKTBN's dbn: a DynamicBayesNet, kTBN a reference
    bn,             \* the reference unrollKTBN returned, 0 before it returns
    nbr,            \* the nbr argument of the unrollKTBN call
    uCall,          \* the last call on dbn or bn: operation and exception
    wKey,           \* the last dbn.cpt(var)[key] = value: var and key
    rVal            \* the last dbn.cpt(var)[key]: var, key and the value returned

facadeVars == <<k, separator, variables, nodes, arcs, lastCall, liveArcs>>
codecVars  == <<cName, cSlice, cSep, cFlat, cUser, cPc>>
unrollVars == <<heap, dbn, bn, nbr, uCall, wKey, rVal>>
vars       == <<k, separator, variables, nodes, arcs, lastCall, liveArcs,
                cName, cSlice, cSep, cFlat, cUser, cPc,
                heap, dbn, bn, nbr, uCall, wKey, rVal>>

\* no template network and no unrolled network in play
NoUnroll ==
    /\ heap = <<>>
    /\ dbn = [k |-> 0, separator |-> <<"#">>, variables |-> {}, kTBN |-> 0]
    /\ bn = 0
    /\ nbr = 0
    /\ uCall = [op |-> "init", err |-> "none"]
    /\ wKey = [var |-> <<>>, key |-> <<>>]
    /\ rVal = [var |-> <<>>, key |-> <<>>, val |-> <<>>]

----------------------------------------------------------------------------
(* Bounds of the model.                                                    *)

MaxK      == 2      \* horizons 1..MaxK
MaxArcs   == 2      \* addArc is explored while the graph has fewer arcs
MaxSlice  == 2      \* codec runs encode the slices 0..MaxSlice
MaxNameLen == 2     \* codec runs encode names of 1..MaxNameLen characters

----------------------------------------------------------------------------
(* Python values and strings.                                              *)

PyInt(i) == [type |-> "int", val |-> i]
PyStr(s) == [type |-> "str", val |-> s]

DigitChars == <<"0", "1", "2", "3", "4", "5", "6", "7", "8", "9">>

RECURSIVE NatToStr(_)
NatToStr(n) ==
    IF n < 10 THEN <<DigitChars[n + 1]>>
    ELSE NatToStr(n \div 10) \o <<DigitChars[(n % 10) + 1]>>

\* str(i) of a Python int, as the f-string of _userToCodeName formats it
IntToStr(i) == IF i < 0 THEN <<"-">> \o NatToStr(0 - i) ELSE NatToStr(i)

\* s[i:i+len(sep)] == sep
MatchAt(s, sep, i) ==
    /\ i + Len(sep) - 1 <= Len(s)
    /\ SubSeq(s, i, i + Len(sep) - 1) = sep

\* Python's `sep in s` for strings
Contains(s, sep) == \E i \in 1..(Len(s) + 1) : MatchAt(s, sep, i)

\* Python's s.split(sep) for a non-empty sep: the list of the parts
RECURSIVE SplitFrom(_, _, _, _)
SplitFrom(s, sep, i, cur) ==
    IF i > Len(s) THEN <<cur>>
    ELSE IF MatchAt(s, sep, i)
         THEN <<cur>> \o SplitFrom(s, sep, i + Len(sep), <<>>)
         ELSE SplitFrom(s, sep, i + 1, Append(cur, s[i]))

Split(s, sep) == SplitFrom(s, sep, 1, <<>>)

----------------------------------------------------------------------------
(* dCommon: the name codec.                                                *)

\* dCommon._userToCodeName: f"{name}{self.separator}{time_slice}"
userToCodeName(sep, name, time_slice) == name \o sep \o IntToStr(time_slice)

\* dCommon._codeToUserName: split = name.split(sep); return split[0], split[1]
\* The parts are strings; a name without separator has no split[1].
codeToUserName(sep, name) ==
    LET split == Split(name, sep)
    IN  IF Len(split) < 2
        THEN [err |-> "IndexError", name |-> PyStr(<<>>), slice |-> PyStr(<<>>)]
        ELSE [err |-> "none", name |-> PyStr(split[1]), slice |-> PyStr(split[2])]

\* int(parent_user[1]): the integer a decimal string denotes
DigitVal(c) == CHOOSE d \in 0..9 : DigitChars[d + 1] = c

RECURSIVE StrToNat(_)
StrToNat(s) ==
    IF Len(s) = 0 THEN 0
    ELSE 10 * StrToNat(SubSeq(s, 1, Len(s) - 1)) + DigitVal(s[Len(s)])

StrToInt(s) ==
    IF Len(s) > 0 /\ s[1] = "-" THEN 0 - StrToNat(Tail(s)) ELSE StrToNat(s)

----------------------------------------------------------------------------
(* The engine graph (pyAgrum.BayesNet) as the facade uses it.  Each        *)
(* operator returns the outcome of the engine call: the exception it       *)
(* raises ("none" when it returns) and the graph afterwards.               *)

\* nodes reachable from the set S along the arcs as
RECURSIVE ReachFrom(_, _)
ReachFrom(as, S) ==
    LET N == S \cup {a[2] : a \in {b \in as : b[1] \in S}}
    IN  IF N = S THEN S ELSE ReachFrom(as, N)

\* self.kTBN.add(var): a second node of the same name is refused
engineAdd(ns, name) ==
    IF name \in ns
    THEN [err |-> "DuplicateLabel", nodes |-> ns]
    ELSE [err |-> "none", nodes |-> ns \cup {name}]

\* self.kTBN.idFromName(name)
engineIdFromName(ns, name) == IF name \in ns THEN "none" ELSE "NotFound"

\* self.kTBN.addArc(i1, i2): the graph stays a simple DAG
engineAddArc(as, tail, head) ==
    IF <<tail, head>> \in as
    THEN [err |-> "DuplicateElement", arcs |-> as]
    ELSE IF tail \in ReachFrom(as, {head})
         THEN [err |-> "InvalidDirectedCycle", arcs |-> as]
         ELSE [err |-> "none", arcs |-> as \cup {<<tail, head>>}]

\* self.kTBN.eraseArc(i1, i2): nothing happens when the arc does not exist
engineEraseArc(as, tail, head) == as \ {<<tail, head>>}

\* self.kTBN.erase(var_name): the node goes with its incident arcs
engineErase(ns, as, name) ==
    IF name \notin ns
    THEN [err |-> "NotFound", nodes |-> ns, arcs |-> as]
    ELSE [err |-> "none", nodes |-> ns \ {name},
          arcs |-> {a \in as : a[1] # name /\ a[2] # name}]

----------------------------------------------------------------------------
(* DynamicBayesNet: the facade operations.  Each returns the exception of  *)
(* the call and the facade state at the moment the call ends.              *)

Outcome(e, vs, ns, as) ==
    [err |-> e, variables |-> vs, nodes |-> ns, arcs |-> as]

\* dCommon.nameFromId(id), a node being known by its internal name
nameFromId(node) == codeToUserName(separator, node)

\* addLoop iterating over range(self.k - 1)
RECURSIVE addLoopShort(_, _, _)
addLoopShort(ns, name, t) ==
    IF t >= k - 1 THEN [err |-> "none", nodes |-> ns]
    ELSE LET r == engineAdd(ns, userToCodeName(separator, name, t))
         IN  IF r.err # "none" THEN [err |-> r.err, nodes |-> ns]
             ELSE addLoopShort(r.nodes, name, t + 1)

\* add, "for t in range(self.k)": stops at the first exception of the engine
RECURSIVE addLoop(_, _, _)
addLoop(ns, name, t) ==
    IF t >= k THEN [err |-> "none", nodes |-> ns]
    ELSE LET r == engineAdd(ns, userToCodeName(separator, name, t))
         IN  IF r.err # "none" THEN [err |-> r.err, nodes |-> ns]
             ELSE addLoop(r.nodes, name, t + 1)

\* add checking the separator after the nodes were created
addCheckAfter(name) ==
    LET r == addLoop(nodes, name, 0)
    IN  IF r.err # "none"
        THEN Outcome(r.err, variables, r.nodes, arcs)
        ELSE IF Contains(name, separator)
        THEN Outcome("ValueError_separator", variables, r.nodes, arcs)
        ELSE Outcome("none", variables \cup {name}, r.nodes, arcs)

\* DynamicBayesNet.add(v), name = v.name()
add(name) ==
    IF Contains(name, separator)
    THEN Outcome("ValueError_separator", variables, nodes, arcs)
    ELSE LET r == addLoop(nodes, name, 0)
         IN  IF r.err # "none"
             THEN Outcome(r.err, variables, r.nodes, arcs)
             ELSE Outcome("none", variables \cup {name}, r.nodes, arcs)

\* gum.fastVariable(var_description).name(): the text before the domain
fastVariableName(desc) ==
    LET cut == {i \in 1..Len(desc) : desc[i] \in {"{", "["}}
    IN  IF cut = {} THEN desc
        ELSE SubSeq(desc, 1, (CHOOSE i \in cut : \A j \in cut : i <= j) - 1)

\* DynamicBayesNet.addFast(var_description)
addFast(desc) == add(fastVariableName(desc))

\* dCommon.idFromName(var)
idFromName(var) ==
    engineIdFromName(nodes, userToCodeName(separator, var[1], var[2]))

\* the end of addArc: both ids looked up, then the engine call
addArcLookupAndInsert(tail, head) ==
    LET n1 == userToCodeName(separator, tail[1], tail[2])
        n2 == userToCodeName(separator, head[1], head[2])
    IN  IF idFromName(tail) # "none"
        THEN Outcome(idFromName(tail), variables, nodes, arcs)
        ELSE IF idFromName(head) # "none"
        THEN Outcome(idFromName(head), variables, nodes, arcs)
        ELSE LET r == engineAddArc(arcs, n1, n2)
             IN  Outcome(r.err, variables, nodes, r.arcs)

\* addArc without the check for backward arcs
addArcNoOrder(tail, head) ==
    IF tail[2] >= k \/ head[2] >= k
    THEN Outcome("ValueError_horizon", variables, nodes, arcs)
    ELSE addArcLookupAndInsert(tail, head)

\* addArc checking the horizon before the direction
addArcHorizonFirst(tail, head) ==
    IF tail[2] >= k \/ head[2] >= k
    THEN Outcome("ValueError_horizon", variables, nodes, arcs)
    ELSE IF tail[2] > head[2]
    THEN Outcome("ValueError_backward", variables, nodes, arcs)
    ELSE addArcLookupAndInsert(tail, head)

\* addArc refusing the last slice of the horizon: t >= self.k - 1
addArcHorizonOffByOne(tail, head) ==
    IF tail[2] > head[2]
    THEN Outcome("ValueError_backward", variables, nodes, arcs)
    ELSE IF tail[2] >= k - 1 \/ head[2] >= k - 1
    THEN Outcome("ValueError_horizon", variables, nodes, arcs)
    ELSE addArcLookupAndInsert(tail, head)

\* DynamicBayesNet.addArc(tail, head)
addArc(tail, head) ==
    LET t1 == tail[2]
        t2 == head[2]
        n1 == userToCodeName(separator, tail[1], tail[2])
        n2 == userToCodeName(separator, head[1], head[2])
    IN  IF t1 > t2
        THEN Outcome("ValueError_backward", variables, nodes, arcs)
        ELSE IF t1 >= k \/ t2 >= k
        THEN Outcome("ValueError_horizon", variables, nodes, arcs)
        ELSE IF idFromName(tail) # "none"
        THEN Outcome(idFromName(tail), variables, nodes, arcs)
        ELSE IF idFromName(head) # "none"
        THEN Outcome(idFromName(head), variables, nodes, arcs)
        ELSE LET r == engineAddArc(arcs, n1, n2)
             IN  Outcome(r.err, variables, nodes, r.arcs)

\* DynamicBayesNet.eraseArc(tail, head)
eraseArc(tail, head) ==
    LET n1 == userToCodeName(separator, tail[1], tail[2])
        n2 == userToCodeName(separator, head[1], head[2])
    IN  IF idFromName(tail) # "none"
        THEN Outcome(idFromName(tail), variables, nodes, arcs)
        ELSE IF idFromName(head) # "none"
        THEN Outcome(idFromName(head), variables, nodes, arcs)
        ELSE Outcome("none", variables, nodes, engineEraseArc(arcs, n1, n2))

\* eraseLoop iterating over range(self.k - 1)
RECURSIVE eraseLoopShort(_, _, _, _)
eraseLoopShort(ns, as, var, t) ==
    IF t >= k - 1 THEN [err |-> "none", nodes |-> ns, arcs |-> as]
    ELSE LET r == engineErase(ns, as, userToCodeName(separator, var, t))
         IN  IF r.err # "none" THEN [err |-> r.err, nodes |-> ns, arcs |-> as]
             ELSE eraseLoopShort(r.nodes, r.arcs, var, t + 1)

\* erase, "for t in range(self.k)": stops at the first exception of the engine
RECURSIVE eraseLoop(_, _, _, _)
eraseLoop(ns, as, var, t) ==
    IF t >= k THEN [err |-> "none", nodes |-> ns, arcs |-> as]
    ELSE LET r == engineErase(ns, as, userToCodeName(separator, var, t))
         IN  IF r.err # "none" THEN [err |-> r.err, nodes |-> ns, arcs |-> as]
             ELSE eraseLoop(r.nodes, r.arcs, var, t + 1)

\* DynamicBayesNet.erase(var); self.variables.remove(var) comes after the loop
erase(var) ==
    LET r == eraseLoop(nodes, arcs, var, 0)
    IN  IF r.err # "none"
        THEN Outcome(r.err, variables, r.nodes, r.arcs)
        ELSE IF var \notin variables
        THEN Outcome("KeyError", variables, r.nodes, r.arcs)
        ELSE Outcome("none", variables \ {var}, r.nodes, r.arcs)

\* DynamicBayesNet.cpt(var): self.kTBN.cpt(name) needs the node
cpt(var) ==
    Outcome(engineIdFromName(nodes, userToCodeName(separator, var[1], var[2])),
            variables, nodes, arcs)

----------------------------------------------------------------------------
(* The calls the model makes.                                              *)

\* names of the variables handed to add, erase and the arc operations;
\* "A#1" holds the default separator
Names == {<<"A">>, <<"B">>, <<"A", "#", "1">>}

\* fast-syntax descriptions handed to addFast, as "C{on|off}" in the tests
FastDescriptions == {n \o <<"{", "o", "n", "|", "o", "f", "f", "}">> : n \in Names}

\* time slices handed to the arc operations and to cpt: one below the
\* horizon's range, the range, and one above
CallSlices == (0 - 1)..k

UserKeys == Names \X CallSlices

\* _nameToString(var_name): f"('{name}', {t})"
nameToString(var_name) ==
    LET u == codeToUserName(separator, var_name)
    IN  <<"(", "'">> \o u.name.val \o <<"'", ",", " ">> \o u.slice.val \o <<")">>

\* the arc written head first
arcToStringSwapped(tail, head) ==
    nameToString(head) \o <<" ", "-", ">", " ">> \o nameToString(tail)

\* _arcToString(tail, head)
arcToString(tail, head) ==
    nameToString(tail) \o <<" ", "-", ">", " ">> \o nameToString(head)

\* arcs(): the entries of the list returned, one per arc of the engine
arcsList == {arcToString(a[1], a[2]) : a \in arcs}

Call(op, e) == [op |-> op, err |-> e]

\* the facade state after a call, the record of the call, and the history
\* of arcs, which becomes live when the call returns
Apply(r, op, live) ==
    /\ liveArcs' = (IF r.err = "none" THEN live ELSE liveArcs)
    /\ variables' = r.variables
    /\ nodes' = r.nodes
    /\ arcs' = r.arcs
    /\ lastCall' = Call(op, r.err)
    /\ UNCHANGED <<k, separator, cName, cSlice, cSep, cFlat, cUser, cPc>>
    /\ UNCHANGED unrollVars

Add(name) == Apply(add(name), "add", liveArcs)

AddFast(desc) == Apply(addFast(desc), "addFast", liveArcs)

AddArc(tail, head) ==
    /\ addArc(tail, head).err = "none" => Cardinality(arcs) < MaxArcs
    /\ Apply(addArc(tail, head), "addArc", liveArcs \cup {<<tail, head>>})

EraseArc(tail, head) ==
    Apply(eraseArc(tail, head), "eraseArc", liveArcs \ {<<tail, head>>})

Erase(var) ==
    Apply(erase(var), "erase",
          {a \in liveArcs : a[1][1] # var /\ a[2][1] # var})

Cpt(var) == Apply(cpt(var), "cpt", liveArcs)

\* DynamicBayesNet.__init__(k, separator="#"); no codec run
Init ==
    /\ k \in 1..MaxK
    /\ separator = <<"#">>
    /\ variables = {}
    /\ nodes = {}
    /\ arcs = {}
    /\ lastCall = Call("init", "none")
    /\ liveArcs = {}
    /\ cName = <<>>
    /\ cSlice = 0
    /\ cSep = <<"#">>
    /\ cFlat = <<>>
    /\ cUser = [err |-> "none", name |-> PyStr(<<>>), slice |-> PyStr(<<>>)]
    /\ cPc = "idle"
    /\ NoUnroll

Next ==
    \/ \E name \in Names : Add(name)
    \/ \E desc \in FastDescriptions : AddFast(desc)
    \/ \E tail \in UserKeys, head \in UserKeys : AddArc(tail, head)
    \/ \E tail \in UserKeys, head \in UserKeys : EraseArc(tail, head)
    \/ \E var \in Names : Erase(var)
    \/ \E var \in UserKeys : Cpt(var)

Spec == Init /\ [][Next]_vars

----------------------------------------------------------------------------
(* Codec runs: one dCommon object encodes a user key and decodes the       *)
(* code name again.                                                        *)

Alphabet == {"A", "B", "#", "1"}

\* the strings of 1..n characters of the alphabet
RECURSIVE StringsUpTo(_)
StringsUpTo(n) ==
    IF n = 0 THEN {}
    ELSE LET shorter == StringsUpTo(n - 1)
         IN  {<<c>> : c \in Alphabet} \cup shorter
               \cup {Append(s, c) : s \in shorter, c \in Alphabet}

CodecNames == StringsUpTo(MaxNameLen)

\* the default separator, another punctuation mark, and a digit
Separators == {<<"#">>, <<"_">>, <<"1">>}

Encode ==
    /\ cPc = "start"
    /\ cFlat' = userToCodeName(cSep, cName, cSlice)
    /\ cPc' = "encoded"
    /\ UNCHANGED <<cName, cSlice, cSep, cUser>>
    /\ UNCHANGED facadeVars
    /\ UNCHANGED unrollVars

Decode ==
    /\ cPc = "encoded"
    /\ cUser' = codeToUserName(cSep, cFlat)
    /\ cPc' = "decoded"
    /\ UNCHANGED <<cName, cSlice, cSep, cFlat>>
    /\ UNCHANGED facadeVars
    /\ UNCHANGED unrollVars

InitCodec ==
    /\ k = 1
    /\ separator = <<"#">>
    /\ variables = {}
    /\ nodes = {}
    /\ arcs = {}
    /\ lastCall = Call("init", "none")
    /\ liveArcs = {}
    /\ cName \in CodecNames
    /\ cSlice \in 0..MaxSlice
    /\ cSep \in Separators
    /\ cFlat = <<>>
    /\ cUser = [err |-> "none", name |-> PyStr(<<>>), slice |-> PyStr(<<>>)]
    /\ cPc = "start"
    /\ NoUnroll

NextCodec == Encode \/ Decode

SpecCodec == InitCodec /\ [][NextCodec]_vars

----------------------------------------------------------------------------
(* C1 -- For every name that does not hold the separator, every slice and  *)
(* every separator, decoding the encoded key gives back the name and the   *)
(* slice as the integer that was encoded.                                  *)

C1_RoundTrip ==
    (cPc = "decoded" /\ ~Contains(cName, cSep)) =>
        /\ cUser.err = "none"
        /\ cUser.name = PyStr(cName)
        /\ cUser.slice.type = "int"
        /\ cUser.slice.val = cSlice

----------------------------------------------------------------------------
(* Claims about the facade.  A claim about what a call does is stated of   *)
(* the outcome of the operation applied to the facade state at hand, for   *)
(* every reachable state and every argument the model hands to the call.   *)

EncodeKey(var) == userToCodeName(separator, var[1], var[2])

Registered(var) == var[1] \in variables

\* the outcome is the facade state at hand
Untouched(r) ==
    /\ r.variables = variables
    /\ r.nodes = nodes
    /\ r.arcs = arcs

\* the exception is one of the facade's ValueErrors
IsValueError(e) ==
    e \in {"ValueError_separator", "ValueError_backward", "ValueError_horizon"}

\* the slice a node's name decodes to
SliceOf(node) == StrToInt(nameFromId(node).slice.val)

\* the variable name a node's name decodes to
BaseOf(node) == nameFromId(node).name.val

(* C2 -- In every reachable state, every registered name has an engine     *)
(* node for every slice of the horizon.                                    *)
C2_RegisteredHaveAllNodes ==
    \A name \in variables : \A t \in 0..(k - 1) :
        userToCodeName(separator, name, t) \in nodes

\* a name is still registered after another one was erased
C2_Witness ==
    /\ lastCall = Call("erase", "none")
    /\ variables # {}
    /\ k > 1

(* C3 -- In every reachable state, every arc of the graph goes from a      *)
(* slice to the same or a later slice, and both slices lie in [0,k).       *)
C3_ArcsForwardWithinHorizon ==
    \A a \in arcs :
        /\ nameFromId(a[1]).err = "none"
        /\ nameFromId(a[2]).err = "none"
        /\ SliceOf(a[1]) <= SliceOf(a[2])
        /\ SliceOf(a[1]) \in 0..(k - 1)
        /\ SliceOf(a[2]) \in 0..(k - 1)

\* an arc into a later slice and an arc inside a slice were added
C3_Witness ==
    /\ lastCall = Call("addArc", "none")
    /\ \E a \in arcs : SliceOf(a[1]) < SliceOf(a[2])
    /\ \E a \in arcs : SliceOf(a[1]) = SliceOf(a[2])

(* C4 -- addArc with a tail slice above the head slice fails with the      *)
(* backward-arc error in every state, whatever the names and whether or    *)
(* not a slice is beyond the horizon.                                      *)
C4_BackwardArcIsOrderingError ==
    \A tail \in UserKeys, head \in UserKeys :
        tail[2] > head[2] =>
            addArc(tail, head).err = "ValueError_backward"

\* a backward arc was refused on a facade with no variable registered
C4_Witness ==
    /\ lastCall = Call("addArc", "ValueError_backward")
    /\ variables = {}

(* C5 -- addArc between two registered variables with t1 <= t2 < k always  *)
(* succeeds, and afterwards the edge between the two flat nodes exists.    *)
C5_InHorizonArcAlwaysSucceeds ==
    \A tail \in UserKeys, head \in UserKeys :
        (Registered(tail) /\ Registered(head)
            /\ tail[2] <= head[2] /\ head[2] < k) =>
            /\ addArc(tail, head).err = "none"
            /\ <<EncodeKey(tail), EncodeKey(head)>> \in addArc(tail, head).arcs

(* C5, amended -- addArc between two registered variables with             *)
(* 0 <= t1 <= t2 < k succeeds exactly when the arc is not in the graph yet *)
(* and the graph has no directed path from the head to the tail (the head  *)
(* is not the tail); it then adds that one edge and changes nothing else.  *)
(* Otherwise it fails with the engine's duplicate-arc or directed-cycle    *)
(* error and changes nothing.                                              *)
C5_InHorizonArcSucceedsIffNewAndAcyclic ==
    \A tail \in UserKeys, head \in UserKeys :
        (Registered(tail) /\ Registered(head)
            /\ 0 <= tail[2] /\ tail[2] <= head[2] /\ head[2] < k) =>
            LET n1 == EncodeKey(tail)
                n2 == EncodeKey(head)
                r  == addArc(tail, head)
            IN  IF <<n1, n2>> \in arcs
                THEN r.err = "DuplicateElement" /\ Untouched(r)
                ELSE IF n1 \in ReachFrom(arcs, {n2})
                THEN r.err = "InvalidDirectedCycle" /\ Untouched(r)
                ELSE /\ r.err = "none"
                     /\ r.arcs = arcs \cup {<<n1, n2>>}
                     /\ r.nodes = nodes
                     /\ r.variables = variables

\* a second arc was added after a first one
C5_Witness ==
    /\ lastCall = Call("addArc", "none")
    /\ Cardinality(arcs) >= 2

(* C6 -- addArc with t1 <= t2 and the tail slice or the head slice outside *)
(* [0,k) fails with the horizon error and with no other error.  Stated for *)
(* registered names, where the slices alone are wrong with the call.       *)
C6_OutsideHorizonIsHorizonError ==
    \A tail \in UserKeys, head \in UserKeys :
        (Registered(tail) /\ Registered(head) /\ tail[2] <= head[2]
            /\ (tail[2] \notin 0..(k - 1) \/ head[2] \notin 0..(k - 1))) =>
            addArc(tail, head).err = "ValueError_horizon"

(* C7 -- Every facade operation that ends in an error leaves the engine    *)
(* nodes, the arcs and the registered names as they were before the call.  *)
C7_FailedCallChangesNothing ==
    /\ \A name \in Names : add(name).err # "none" => Untouched(add(name))
    /\ \A desc \in FastDescriptions :
           addFast(desc).err # "none" => Untouched(addFast(desc))
    /\ \A var \in Names : erase(var).err # "none" => Untouched(erase(var))
    /\ \A tail \in UserKeys, head \in UserKeys :
           /\ addArc(tail, head).err # "none" => Untouched(addArc(tail, head))
           /\ eraseArc(tail, head).err # "none" =>
                  Untouched(eraseArc(tail, head))
    /\ \A var \in UserKeys : cpt(var).err # "none" => Untouched(cpt(var))

\* add of a registered name was refused by the engine, arcs being present
C7_Witness ==
    /\ lastCall = Call("add", "DuplicateLabel")
    /\ arcs # {}

(* C8 -- eraseArc of an arc that is not in the graph succeeds and changes  *)
(* nothing, also when an endpoint names no node; eraseArc of an arc that   *)
(* is in the graph removes that arc and no other.                          *)
C8_EraseArcNeverFails ==
    \A tail \in UserKeys, head \in UserKeys :
        LET n1 == EncodeKey(tail)
            n2 == EncodeKey(head)
            r  == eraseArc(tail, head)
        IN  /\ r.err = "none"
            /\ r.variables = variables
            /\ r.nodes = nodes
            /\ r.arcs = arcs \ {<<n1, n2>>}

(* C9 -- add fails with a validation error when the name holds the         *)
(* separator and when the name is already registered, and in both cases    *)
(* creates no node and leaves the registered set as it was.                *)
C9_AddRefusesWithValidationError ==
    \A name \in Names :
        (Contains(name, separator) \/ name \in variables) =>
            /\ IsValueError(add(name).err)
            /\ Untouched(add(name))

(* C10 -- erase of a registered name removes the k nodes of that name,     *)
(* every arc with one of them as tail or head, and the name from the       *)
(* registered set, and leaves the nodes and arcs of the other names as     *)
(* they were; erase of an unregistered name fails with the not-found       *)
(* error.                                                                  *)
C10_EraseRemovesExactlyTheVariable ==
    \A var \in Names :
        LET r == erase(var)
        IN  IF var \in variables
            THEN /\ r.err = "none"
                 /\ \A t \in 0..(k - 1) :
                        /\ userToCodeName(separator, var, t) \in nodes
                        /\ userToCodeName(separator, var, t) \notin r.nodes
                 /\ r.nodes = {n \in nodes : BaseOf(n) # var}
                 /\ r.arcs = {a \in arcs : BaseOf(a[1]) # var /\ BaseOf(a[2]) # var}
                 /\ r.variables = variables \ {var}
            ELSE r.err = "NotFound"

\* a variable was erased and an arc between nodes of the other variable
\* is still there
C10_Witness ==
    /\ lastCall = Call("erase", "none")
    /\ arcs # {}
    /\ Cardinality(variables) = 1

----------------------------------------------------------------------------
(* A pyAgrum.BayesNet as notebook.py uses it: the domain size of every     *)
(* node (dom), the arcs, and the CPT of every node.  A CPT is the set of   *)
(* its variables (the node and its parents) and a table from the           *)
(* assignments of these variables to values.  The numbers in a table are   *)
(* the engine's affair: a value is known by who put it (the engine when it *)
(* builds a CPT, the user who fills the template) and by the cell it was   *)
(* first put in, so that a copied value can be told from every other one.  *)


Labels(size) == 0..(size - 1)

\* the assignments of the variables vs of a graph with domain sizes dom
Assignments(dom, vs) ==
    {f \in [vs -> UNION {Labels(dom[v]) : v \in vs}] :
        \A v \in vs : f[v] \in Labels(dom[v])}

CellValue(by, node, f) == [by |-> by, node |-> node, at |-> f]

\* the CPT the engine gives a node when its set of parents changes
FreshCpt(dom, node, ps) ==
    [vars |-> {node} \cup ps,
     tab  |-> [f \in Assignments(dom, {node} \cup ps) |->
                 CellValue("engine", node, f)]]

\* bn.parents(node)
Parents(g, node) == {a[1] : a \in {b \in g.arcs : b[2] = node}}

\* bn.add(var): a node of that name and domain, without parents
gAdd(g, name, size) ==
    IF name \in DOMAIN g.dom
    THEN [err |-> "DuplicateLabel", g |-> g]
    ELSE LET newdom == (name :> size) @@ g.dom
         IN  [err |-> "none",
              g |-> [dom  |-> newdom,
                     arcs |-> g.arcs,
                     cpt  |-> (name :> FreshCpt(newdom, name, {})) @@ g.cpt]]

\* bn.addArc(tail, head) by names: both must name nodes, the graph stays a
\* simple DAG, the head's CPT gets the tail as a variable
gAddArc(g, tail, head) ==
    IF tail \notin DOMAIN g.dom \/ head \notin DOMAIN g.dom
    THEN [err |-> "NotFound", g |-> g]
    ELSE LET r == engineAddArc(g.arcs, tail, head)
         IN  IF r.err # "none" THEN [err |-> r.err, g |-> g]
             ELSE [err |-> "none",
                   g |-> [dom  |-> g.dom,
                          arcs |-> r.arcs,
                          cpt  |-> [g.cpt EXCEPT ![head] =
                                      FreshCpt(g.dom, head,
                                               Parents(g, head) \cup {tail})]]]

\* fillWith from the new CPT into the one of the slice before
gFillWithReversed(g, dst, src, mapping) ==
    LET D == g.cpt[dst]
        S == g.cpt[src]
        to(f) == [v \in D.vars |-> f[mapping[v]]]
    IN  [err |-> "none",
         g |-> [g EXCEPT !.cpt[src] =
                  [vars |-> S.vars,
                   tab  |-> [f \in DOMAIN S.tab |-> D.tab[to(f)]]]]]

\* bn.cpt(dst).fillWith(bn.cpt(src), mapping): mapping[name in dst] is the
\* name in src; every cell of dst gets the value of the cell of src that
\* the mapping sends it to
gFillWith(g, dst, src, mapping) ==
    LET D == g.cpt[dst]
        S == g.cpt[src]
    IN  IF \E v \in D.vars : v \notin DOMAIN mapping
        THEN [err |-> "KeyError", g |-> g]
        ELSE IF \/ Cardinality(S.vars) # Cardinality(D.vars)
                \/ \E v \in D.vars : mapping[v] \notin S.vars
                \/ \E v, w \in D.vars : v # w /\ mapping[v] = mapping[w]
        THEN [err |-> "InvalidArgument", g |-> g]
        ELSE IF \E v \in D.vars : g.dom[mapping[v]] # g.dom[v]
        THEN [err |-> "InvalidArgument", g |-> g]
        ELSE LET from(f) ==
                     [w \in S.vars |-> f[CHOOSE v \in D.vars : mapping[v] = w]]
             IN  [err |-> "none",
                  g |-> [g EXCEPT !.cpt[dst] =
                           [vars |-> D.vars,
                            tab  |-> [f \in DOMAIN D.tab |-> S.tab[from(f)]]]]]

\* bn.erase(name): the node, its arcs and its CPT go, and the node leaves
\* the CPT of each of its children
gErase(g, name) ==
    IF name \notin DOMAIN g.dom THEN [err |-> "NotFound", g |-> g]
    ELSE LET rest   == DOMAIN g.dom \ {name}
             newdom == [n \in rest |-> g.dom[n]]
         IN  [err |-> "none",
              g |-> [dom  |-> newdom,
                     arcs |-> {a \in g.arcs : a[1] # name /\ a[2] # name},
                     cpt  |-> [n \in rest |->
                                 IF name \in Parents(g, n)
                                 THEN FreshCpt(newdom, n, Parents(g, n) \ {name})
                                 ELSE g.cpt[n]]]]

\* potential.fillWith(value) with a constant
potentialFill(g, node, value) ==
    [g EXCEPT !.cpt[node].tab = [f \in DOMAIN g.cpt[node].tab |-> value]]

\* the cells of a potential that a dict of names and labels selects; names
\* that are no variable of the potential select nothing
potentialCells(P, key) ==
    {f \in DOMAIN P.tab : \A v \in DOMAIN key \cap P.vars : f[v] = key[v]}

\* potential[key], key a dict: the selected cells with their values
potentialGet(g, node, key) ==
    LET P == g.cpt[node]
    IN  IF \E v \in DOMAIN key \cap P.vars : key[v] \notin Labels(g.dom[v])
        THEN [err |-> "IndexError", val |-> <<>>]
        ELSE [err |-> "none",
              val |-> [f \in potentialCells(P, key) |-> P.tab[f]]]

\* potential[key] = value, key a dict: every selected cell gets the value
potentialSet(g, node, key, value) ==
    LET P == g.cpt[node]
    IN  IF \E v \in DOMAIN key \cap P.vars : key[v] \notin Labels(g.dom[v])
        THEN [err |-> "IndexError", g |-> g]
        ELSE [err |-> "none",
              g |-> [g EXCEPT !.cpt[node].tab =
                       [f \in DOMAIN P.tab |->
                           IF f \in potentialCells(P, key) THEN value
                           ELSE P.tab[f]]]]

----------------------------------------------------------------------------
(* notebook.unrollKTBN(dbn, nbr).  dbn.variables is a Python set and       *)
(* bn.parents() returns one: the order in which the loops meet their       *)
(* elements is not fixed by the program, so it is an argument here: order  *)
(* is the sequence in which "for var in dbn.variables" meets the names,    *)
(* po[var] the sequence in which "for parent in bn.parents(template_node)" *)
(* meets the parents of var's node in slice k-1.                           *)

\* "for parent in bn.parents(template_node)", from the i-th parent on
RECURSIVE linkParents(_, _, _, _, _, _, _)
linkParents(g, d, t, new_var, pseq, i, mapping) ==
    IF i > Len(pseq) THEN [err |-> "none", g |-> g, mapping |-> mapping]
    ELSE LET parent_user == codeToUserName(d.separator, pseq[i])
             parent_base == parent_user.name.val
             parent_ts   == StrToInt(parent_user.slice.val)
             dist        == (d.k - 1) - parent_ts
             parent_new  == userToCodeName(d.separator, parent_base, t - dist)
             prev_parent ==
                 userToCodeName(d.separator, parent_base, t - dist - 1)
             r == gAddArc(g, parent_new, new_var)
         IN  IF parent_user.err # "none"
             THEN [err |-> parent_user.err, g |-> g, mapping |-> mapping]
             ELSE IF r.err # "none"
             THEN [err |-> r.err, g |-> g, mapping |-> mapping]
             ELSE linkParents(r.g, d, t, new_var, pseq, i + 1,
                              (parent_new :> prev_parent) @@ mapping)

\* the body of the loop that ties each new node to its node of the slice
\* before instead of repeating the template's arcs
unrollVarPersist(g, d, t, var, pseq) ==
    LET a == gAdd(g, userToCodeName(d.separator, var, t),
                  g.dom[userToCodeName(d.separator, var, 0)])
    IN  gAddArc(a.g, userToCodeName(d.separator, var, t - 1),
                userToCodeName(d.separator, var, t))

\* the body of the loop that only adds the node
unrollVarNodeOnly(g, d, t, var, pseq) ==
    gAdd(g, userToCodeName(d.separator, var, t),
         g.dom[userToCodeName(d.separator, var, 0)])

\* the body of the loop without the fillWith of line 214
unrollVarNoFill(g, d, t, var, pseq) ==
    LET new_var  == userToCodeName(d.separator, var, t)
        prev_var == userToCodeName(d.separator, var, t - 1)
        a == gAdd(g, new_var, g.dom[userToCodeName(d.separator, var, 0)])
        l == linkParents(a.g, d, t, new_var, pseq, 1, (new_var :> prev_var))
    IN  IF a.err # "none" THEN [err |-> a.err, g |-> g]
        ELSE [err |-> l.err, g |-> l.g]

\* the body of "for var in dbn.variables" for the slice t
unrollVar(g, d, t, var, pseq) ==
    LET new_var       == userToCodeName(d.separator, var, t)
        template_name == userToCodeName(d.separator, var, 0)
        prev_var      == userToCodeName(d.separator, var, t - 1)
    IN  IF template_name \notin DOMAIN g.dom
        THEN [err |-> "NotFound", g |-> g]
        ELSE LET a == gAdd(g, new_var, g.dom[template_name])
             IN  IF a.err # "none" THEN [err |-> a.err, g |-> g]
                 ELSE LET l == linkParents(a.g, d, t, new_var, pseq, 1,
                                           (new_var :> prev_var))
                      IN  IF l.err # "none" THEN [err |-> l.err, g |-> l.g]
                          ELSE gFillWith(l.g, new_var, prev_var, l.mapping)

\* the loops with range(k, nbr - 1)
RECURSIVE unrollLoopShort(_, _, _, _, _, _)
unrollLoopShort(g, d, n, order, po, j) ==
    IF j >= (n - d.k - 1) * Len(order) THEN [err |-> "none", g |-> g]
    ELSE LET t   == d.k + (j \div Len(order))
             var == order[(j % Len(order)) + 1]
             r   == unrollVar(g, d, t, var, po[var])
         IN  IF r.err # "none" THEN r
             ELSE unrollLoopShort(r.g, d, n, order, po, j + 1)

\* "for t in range(k, nbr): for var in dbn.variables", from the j-th pass on
RECURSIVE unrollLoop(_, _, _, _, _, _)
unrollLoop(g, d, n, order, po, j) ==
    IF j >= (n - d.k) * Len(order) THEN [err |-> "none", g |-> g]
    ELSE LET t   == d.k + (j \div Len(order))
             var == order[(j % Len(order)) + 1]
             r   == unrollVar(g, d, t, var, po[var])
         IN  IF r.err # "none" THEN r
             ELSE unrollLoop(r.g, d, n, order, po, j + 1)

\* the template's graph itself instead of a copy of it
aliasBayesNet(h, ref) == [heap |-> h, ref |-> ref]

\* gum.BayesNet(dbn.kTBN): a new object with the content of the given one
newBayesNet(h, ref) == [heap |-> Append(h, h[ref]), ref |-> Len(h) + 1]

\* unrollKTBN with the test of nbr after the copy of the template
unrollCheckLate(h, d, n, order, po) ==
    LET c == newBayesNet(h, d.kTBN)
    IN  IF n < d.k
        THEN [err |-> "ValueError_nbr", heap |-> c.heap, ref |-> 0]
        ELSE LET r == unrollLoop(c.heap[c.ref], d, n, order, po, 0)
             IN  [err  |-> r.err,
                  heap |-> [c.heap EXCEPT ![c.ref] = r.g],
                  ref  |-> IF r.err = "none" THEN c.ref ELSE 0]

\* unrollKTBN(dbn, nbr): the exception, the objects afterwards, and the
\* reference returned (0 when the call raises)
unrollKTBN(h, d, n, order, po) ==
    IF n < d.k
    THEN [err |-> "ValueError_nbr", heap |-> h, ref |-> 0]
    ELSE LET c == newBayesNet(h, d.kTBN)
             r == unrollLoop(c.heap[c.ref], d, n, order, po, 0)
         IN  [err  |-> r.err,
              heap |-> [c.heap EXCEPT ![c.ref] = r.g],
              ref  |-> IF r.err = "none" THEN c.ref ELSE 0]

----------------------------------------------------------------------------
(* Unrolling a template.  The template is a DynamicBayesNet as the facade  *)
(* leaves it: dbn holds its k, separator, variables and the reference      *)
(* kTBN to its engine graph, heap the engine graphs by reference.  Every   *)
(* registered name has its k nodes, and the arcs are forward, within the   *)
(* horizon and acyclic, which is what add() and addArc() let through.      *)

\* slices unrolled beyond the template's horizon
MaxExtra == 2

TemplateNames == {<<"A">>, <<"B">>}

\* the sequences that hold every element of S once
Perms(S) ==
    {s \in [1..Cardinality(S) -> S] : \A x \in S : \E i \in DOMAIN s : s[i] = x}

RECURSIVE SubsetsUpTo(_, _)
SubsetsUpTo(C, n) ==
    IF n = 0 THEN {{}}
    ELSE LET S == SubsetsUpTo(C, n - 1)
         IN  S \cup {s \cup {c} : s \in S, c \in C}

Acyclic(as) == \A a \in as : a[1] \notin ReachFrom(as, {a[2]})

TemplateNodes(d) ==
    {userToCodeName(d.separator, v, t) : v \in d.variables, t \in 0..(d.k - 1)}

\* the arcs addArc() accepts one by one: the tail's slice is not after the
\* head's, both are below k, both nodes exist, no self-loop
TemplateArcs(d) ==
    {<<userToCodeName(d.separator, v1, t1), userToCodeName(d.separator, v2, t2)>> :
        <<v1, t1, v2, t2>> \in
            {q \in d.variables \X (0..(d.k - 1)) \X d.variables \X (0..(d.k - 1)) :
                q[2] <= q[4] /\ <<q[1], q[2]>> # <<q[3], q[4]>>}}

\* the variables' domain sizes, as LabelizedVariable("a", "a", 2) and
\* LabelizedVariable("d", "d", 3) in the tests
TemplateDomain(name) == IF name = <<"A">> THEN 2 ELSE 3

TemplateGraph(d, as) ==
    LET dom == [n \in TemplateNodes(d) |->
                   TemplateDomain(codeToUserName(d.separator, n).name.val)]
        g0  == [dom |-> dom, arcs |-> as, cpt |-> <<>>]
    IN  [dom  |-> dom,
         arcs |-> as,
         cpt  |-> [n \in TemplateNodes(d) |->
                     [vars |-> {n} \cup Parents(g0, n),
                      tab  |-> [f \in Assignments(dom, {n} \cup Parents(g0, n)) |->
                                  CellValue("user", n, f)]]]]

TemplateGraphs(d) ==
    {TemplateGraph(d, as) :
        as \in {x \in SubsetsUpTo(TemplateArcs(d), MaxArcs) : Acyclic(x)}}

\* the orders in which the parents of each name's node of slice k-1 can be met
ParentOrders(g, d) ==
    LET ps(v) == Perms(Parents(g, userToCodeName(d.separator, v, d.k - 1)))
    IN  {po \in [d.variables -> UNION {ps(v) : v \in d.variables}] :
            \A v \in d.variables : po[v] \in ps(v)}

UCall(op, e) == [op |-> op, err |-> e]

\* bn = unrollKTBN(dbn, n)
Unroll(n, order, po) ==
    /\ uCall.op = "init"
    /\ LET r == unrollKTBN(heap, dbn, n, order, po)
       IN  /\ heap' = r.heap
           /\ bn' = r.ref
           /\ uCall' = UCall("unrollKTBN", r.err)
    /\ nbr' = n
    /\ UNCHANGED <<dbn, wKey, rVal, facadeVars, codecVars>>

\* the translation that keeps the name and drops the slice
internalKeyNoSlice(sep, key) ==
    [n \in {var[1] : var \in DOMAIN key} |->
        key[CHOOSE var \in DOMAIN key : var[1] = n]]

\* dPotential.__getitem__ / __setitem__: the dict's keys (name, slice) become
\* flat names, then the engine potential is indexed with the new dict
internalKey(sep, key) ==
    LET flat(var) == userToCodeName(sep, var[1], var[2])
    IN  [n \in {flat(var) : var \in DOMAIN key} |->
            key[CHOOSE var \in DOMAIN key : flat(var) = n]]

dPotentialGet(g, sep, node, key) == potentialGet(g, node, internalKey(sep, key))

dPotentialSet(g, sep, node, key, value) ==
    potentialSet(g, node, internalKey(sep, key), value)

\* dbn.erase(var) on the template: the graph and the record afterwards
RECURSIVE dbnEraseLoop(_, _, _, _)
dbnEraseLoop(g, d, var, t) ==
    IF t >= d.k THEN [err |-> "none", g |-> g]
    ELSE LET r == gErase(g, userToCodeName(d.separator, var, t))
         IN  IF r.err # "none" THEN r ELSE dbnEraseLoop(r.g, d, var, t + 1)

dbnErase(g, d, var) ==
    LET r == dbnEraseLoop(g, d, var, 0)
    IN  IF r.err # "none" THEN [err |-> r.err, g |-> r.g, d |-> d]
        ELSE IF var \notin d.variables
        THEN [err |-> "KeyError", g |-> r.g, d |-> d]
        ELSE [err |-> "none", g |-> r.g,
              d |-> [d EXCEPT !.variables = @ \ {var}]]

\* the value a caller writes into a CPT
WrittenValue == CellValue("caller", <<>>, <<>>)

Returned == uCall = UCall("unrollKTBN", "none")

\* bn.erase(node) on the returned graph
BnErase(node) ==
    /\ Returned
    /\ LET r == gErase(heap[bn], node)
       IN  /\ heap' = [heap EXCEPT ![bn] = r.g]
           /\ uCall' = UCall("bn.erase", r.err)
    /\ UNCHANGED <<dbn, bn, nbr, wKey, rVal, facadeVars, codecVars>>

\* bn.cpt(node).fillWith(value) on the returned graph
BnFill(node) ==
    /\ Returned
    /\ node \in DOMAIN heap[bn].dom
    /\ heap' = [heap EXCEPT ![bn] = potentialFill(@, node, WrittenValue)]
    /\ uCall' = UCall("bn.cpt.fillWith", "none")
    /\ UNCHANGED <<dbn, bn, nbr, wKey, rVal, facadeVars, codecVars>>

\* dbn.erase(var) after the unrolling
TplErase(var) ==
    /\ Returned
    /\ LET r == dbnErase(heap[dbn.kTBN], dbn, var)
       IN  /\ heap' = [heap EXCEPT ![dbn.kTBN] = r.g]
           /\ dbn' = r.d
           /\ uCall' = UCall("dbn.erase", r.err)
    /\ UNCHANGED <<bn, nbr, wKey, rVal, facadeVars, codecVars>>

\* dbn.cpt(var).fillWith(value) after the unrolling
TplFill(var) ==
    /\ Returned
    /\ LET node == userToCodeName(dbn.separator, var[1], var[2])
       IN  IF node \notin DOMAIN heap[dbn.kTBN].dom
           THEN /\ uCall' = UCall("dbn.cpt.fillWith", "NotFound")
                /\ heap' = heap
           ELSE /\ uCall' = UCall("dbn.cpt.fillWith", "none")
                /\ heap' = [heap EXCEPT ![dbn.kTBN] =
                              potentialFill(@, node, WrittenValue)]
    /\ UNCHANGED <<dbn, bn, nbr, wKey, rVal, facadeVars, codecVars>>

\* the nodes of the graph unrollKTBN returned
ReturnedNodes == IF bn = 0 THEN {} ELSE DOMAIN heap[bn].dom

\* the keys (name, slice) a caller asks the template's CPTs for
TemplateKeys == TemplateNames \X (0..(dbn.k - 1))

InitUnroll ==
    /\ k = 1
    /\ separator = <<"#">>
    /\ variables = {}
    /\ nodes = {}
    /\ arcs = {}
    /\ lastCall = Call("init", "none")
    /\ liveArcs = {}
    /\ cName = <<>>
    /\ cSlice = 0
    /\ cSep = <<"#">>
    /\ cFlat = <<>>
    /\ cUser = [err |-> "none", name |-> PyStr(<<>>), slice |-> PyStr(<<>>)]
    /\ cPc = "idle"
    /\ dbn \in {[k |-> kk, separator |-> <<"#">>, variables |-> vs, kTBN |-> 1] :
                   kk \in 1..MaxK, vs \in SUBSET TemplateNames}
    /\ heap \in {<<g>> : g \in TemplateGraphs(dbn)}
    /\ bn = 0
    /\ nbr = 0
    /\ uCall = UCall("init", "none")
    /\ wKey = [var |-> <<>>, key |-> <<>>]
    /\ rVal = [var |-> <<>>, key |-> <<>>, val |-> <<>>]

NextUnroll ==
    \/ /\ uCall.op = "init"
       /\ \E n \in 0..(dbn.k + MaxExtra), order \in Perms(dbn.variables),
             po \in ParentOrders(heap[dbn.kTBN], dbn) : Unroll(n, order, po)
    \/ \E node \in ReturnedNodes : BnErase(node)
    \/ \E node \in ReturnedNodes : BnFill(node)
    \/ \E var \in TemplateNames : TplErase(var)
    \/ \E var \in TemplateKeys : TplFill(var)

SpecUnroll == InitUnroll /\ [][NextUnroll]_vars

----------------------------------------------------------------------------
(* The node names the notebook helpers build from a user key (name, slice) *)
(* before they hand the target and the evidence to the engine.             *)

\* getPosterior: raw_target = target[0] + str(target[1]), and the same for
\* every key of evs
getPosteriorKey(key) == key[1] \o IntToStr(key[2])

\* plotFollow: raw_evs[key[0] + "#" + str(key[1])]
plotFollowKey(key) == key[1] \o <<"#">> \o IntToStr(key[2])

----------------------------------------------------------------------------
(* Reading and writing a CPT of the template through dPotential.           *)

\* the dicts {(name, slice): label} over some of the variables of a node's
\* CPT; a label may be outside the variable's domain
Evidences(g, node) ==
    IF node \notin DOMAIN g.dom THEN {<<>>}
    ELSE LET us == {u \in TemplateKeys :
                       userToCodeName(dbn.separator, u[1], u[2])
                           \in g.cpt[node].vars}
         IN  UNION {[sub -> UNION {Labels(TemplateDomain(n)) : n \in TemplateNames}] :
                       sub \in SUBSET us}

\* dbn.cpt(var)[key] = value
TensorWrite(var, key) ==
    /\ uCall.op = "init"
    /\ LET node == userToCodeName(dbn.separator, var[1], var[2])
       IN  IF node \notin DOMAIN heap[dbn.kTBN].dom
           THEN /\ uCall' = UCall("setitem", "NotFound")
                /\ heap' = heap
           ELSE LET r == dPotentialSet(heap[dbn.kTBN], dbn.separator, node,
                                       key, WrittenValue)
                IN  /\ heap' = [heap EXCEPT ![dbn.kTBN] = r.g]
                    /\ uCall' = UCall("setitem", r.err)
    /\ wKey' = [var |-> var, key |-> key]
    /\ UNCHANGED <<dbn, bn, nbr, rVal, facadeVars, codecVars>>

\* dbn.cpt(var)[key]
TensorRead(var, key) ==
    /\ uCall.op = "setitem"
    /\ LET node == userToCodeName(dbn.separator, var[1], var[2])
       IN  IF node \notin DOMAIN heap[dbn.kTBN].dom
           THEN /\ uCall' = UCall("getitem", "NotFound")
                /\ rVal' = [var |-> var, key |-> key, val |-> <<>>]
           ELSE LET r == dPotentialGet(heap[dbn.kTBN], dbn.separator, node, key)
                IN  /\ uCall' = UCall("getitem", r.err)
                    /\ rVal' = [var |-> var, key |-> key, val |-> r.val]
    /\ UNCHANGED <<heap, dbn, bn, nbr, wKey, facadeVars, codecVars>>

\* written with any key; read back with the key of the write or with the
\* empty dict, which selects the whole table
NextTensor ==
    \/ /\ uCall.op = "init"
       /\ \E var \in TemplateKeys :
             \E key \in Evidences(heap[dbn.kTBN],
                                  userToCodeName(dbn.separator, var[1], var[2])) :
                 TensorWrite(var, key)
    \/ /\ uCall.op = "setitem"
       /\ \E key \in {wKey.key, <<>>} : TensorRead(wKey.var, key)

SpecTensor == InitUnroll /\ [][NextTensor]_vars

----------------------------------------------------------------------------
(* C11 -- unrollKTBN(dbn, nbr) with nbr < k raises the ValueError of its   *)
(* first test: no graph object is created, nothing is returned, and the    *)
(* template (its graph, k, separator and registered names) is as before.   *)
C11_ShortUnrollFailsBeforeCopy ==
    [][(uCall.op = "init" /\ uCall'.op = "unrollKTBN" /\ nbr' < dbn.k)
          => /\ uCall'.err = "ValueError_nbr"
             /\ heap' = heap
             /\ bn' = 0
             /\ dbn' = dbn]_vars

\* a template with nodes was asked for fewer slices than its horizon
C11_Witness ==
    /\ uCall = UCall("unrollKTBN", "ValueError_nbr")
    /\ nbr < dbn.k
    /\ dbn.variables # {}
    /\ Len(heap) = 1

\* the flat name of a template variable's node
TKey(name, t) == userToCodeName(dbn.separator, name, t)

\* the step is a call of unrollKTBN that returns a graph
UnrollReturns == uCall.op = "init" /\ uCall' = UCall("unrollKTBN", "none")

(* C12 -- When unrollKTBN(dbn, nbr) returns, the nodes of the returned     *)
(* graph in the slices below k are the template's nodes, with the          *)
(* template's domains and CPTs, the arcs whose head is in a slice below k  *)
(* are the template's arcs, and for nbr = k the returned graph equals the  *)
(* template's graph.                                                       *)
C12_TemplateIsTheSeed ==
    [][UnrollReturns =>
          LET T   == heap[dbn.kTBN]
              U   == heap'[bn']
              old == {n \in DOMAIN U.dom : SliceOf(n) < dbn.k}
          IN  /\ old = DOMAIN T.dom
              /\ \A n \in old : U.dom[n] = T.dom[n] /\ U.cpt[n] = T.cpt[n]
              /\ {a \in U.arcs : a[2] \in old} = T.arcs
              /\ (nbr' = dbn.k => U = T)]_vars

\* a template with an arc into its last slice was unrolled by two slices
C12_Witness ==
    /\ uCall = UCall("unrollKTBN", "none")
    /\ nbr = dbn.k + 2
    /\ \E a \in heap[dbn.kTBN].arcs : SliceOf(a[2]) = dbn.k - 1
    /\ Cardinality(DOMAIN heap[bn].dom) > Cardinality(DOMAIN heap[dbn.kTBN].dom)

\* the node of the same variable, by slices later
Shift(node, by) == userToCodeName(dbn.separator, BaseOf(node), SliceOf(node) + by)

(* C13 -- After unrollKTBN(dbn, nbr) has returned, for every registered    *)
(* name hb and every slice t in k..nbr-1, the CPT of (hb, t) has the        *)
(* variables of the CPT of (hb, k-1) moved t-(k-1) slices forward, and its  *)
(* value at every assignment moved that way is the value of the CPT of     *)
(* (hb, k-1) at the assignment itself.                                     *)
C13_SteadyStateReproduction ==
    uCall = UCall("unrollKTBN", "none") =>
        LET U == heap[bn]
        IN  \A hb \in dbn.variables : \A t \in dbn.k..(nbr - 1) :
                LET src == U.cpt[TKey(hb, dbn.k - 1)]
                    dst == U.cpt[TKey(hb, t)]
                    by  == t - (dbn.k - 1)
                IN  /\ dst.vars = {Shift(v, by) : v \in src.vars}
                    /\ \A f \in DOMAIN src.tab :
                           dst.tab[[w \in dst.vars |-> f[Shift(w, 0 - by)]]]
                               = src.tab[f]

\* two slices were added to a template whose last slice has a node with a
\* parent in an earlier slice, and the CPT of the newest node holds the
\* values the user gave the template
C13_Witness ==
    /\ uCall = UCall("unrollKTBN", "none")
    /\ nbr = dbn.k + 2
    /\ \E hb \in dbn.variables :
           /\ \E p \in Parents(heap[bn], TKey(hb, dbn.k - 1)) :
                  SliceOf(p) < dbn.k - 1
           /\ \A f \in DOMAIN heap[bn].cpt[TKey(hb, nbr - 1)].tab :
                  heap[bn].cpt[TKey(hb, nbr - 1)].tab[f].by = "user"

(* C14 -- After unrollKTBN(dbn, nbr) has returned, for every slice t in    *)
(* k..nbr-1, every registered name hb, every registered name tb and every   *)
(* distance d: the arc (tb, t-d) -> (hb, t) is in the returned graph if    *)
(* and only if the arc (tb, k-1-d) -> (hb, k-1) is in the template; the     *)
(* nodes of the new slices have no other parents, so that a template arc   *)
(* with a head before slice k-1 yields no arc of a new slice.              *)
C14_ArcsOfLastSliceRepeat ==
    uCall = UCall("unrollKTBN", "none") =>
        LET T == heap[dbn.kTBN]
            U == heap[bn]
        IN  \A t \in dbn.k..(nbr - 1) : \A hb \in dbn.variables :
                /\ \A tb \in dbn.variables : \A d \in 0..(nbr - 1) :
                       (<<TKey(tb, t - d), TKey(hb, t)>> \in U.arcs)
                           <=> (<<TKey(tb, dbn.k - 1 - d), TKey(hb, dbn.k - 1)>>
                                    \in T.arcs)
                /\ Parents(U, TKey(hb, t)) \subseteq
                       {TKey(tb, t - d) : tb \in dbn.variables, d \in 0..(nbr - 1)}

\* the template has an arc into a slice before k-1 and an arc into slice
\* k-1, and two slices were added
C14_Witness ==
    /\ uCall = UCall("unrollKTBN", "none")
    /\ nbr = dbn.k + 2
    /\ \E a \in heap[dbn.kTBN].arcs : SliceOf(a[2]) < dbn.k - 1
    /\ \E a \in heap[dbn.kTBN].arcs : SliceOf(a[2]) = dbn.k - 1
    /\ \E a \in heap[bn].arcs : SliceOf(a[2]) = nbr - 1

(* C15 -- For a template and a number of slices, unrollKTBN has one        *)
(* outcome whatever the order in which the registered names and the        *)
(* parents of a node are met: either every order raises, or every order    *)
(* returns, and then the same nodes and the same arcs.                     *)
C15_OutcomeIndependentOfOrder ==
    uCall.op = "init" =>
        \A n \in 0..(dbn.k + MaxExtra) :
            \A o1 \in Perms(dbn.variables), o2 \in Perms(dbn.variables) :
                \A p1 \in ParentOrders(heap[dbn.kTBN], dbn),
                   p2 \in ParentOrders(heap[dbn.kTBN], dbn) :
                    LET r1 == unrollKTBN(heap, dbn, n, o1, p1)
                        r2 == unrollKTBN(heap, dbn, n, o2, p2)
                    IN  /\ r1.err = r2.err
                        /\ r1.err = "none" =>
                               /\ DOMAIN r1.heap[r1.ref].dom
                                      = DOMAIN r2.heap[r2.ref].dom
                               /\ r1.heap[r1.ref].arcs = r2.heap[r2.ref].arcs

(* C16 -- A call of unrollKTBN leaves the template as it was (the nodes,   *)
(* arcs and CPTs of its graph, its registered names, k and separator) and  *)
(* returns another object than the template's graph; a later erase or      *)
(* fillWith on the returned graph leaves the template as it was, and a     *)
(* later erase or fillWith through the template leaves the returned graph  *)
(* as it was.                                                              *)
C16_UnrolledIsIndependentCopy ==
    [][/\ uCall'.op = "unrollKTBN" =>
              /\ heap'[dbn'.kTBN] = heap[dbn.kTBN]
              /\ dbn' = dbn
              /\ bn' # dbn.kTBN
       /\ uCall'.op \in {"bn.erase", "bn.cpt.fillWith"} =>
              /\ heap'[dbn'.kTBN] = heap[dbn.kTBN]
              /\ dbn' = dbn
       /\ uCall'.op \in {"dbn.erase", "dbn.cpt.fillWith"} =>
              /\ bn' = bn
              /\ heap'[bn'] = heap[bn]]_vars

\* the template has lost a name whose nodes the returned graph still has
C16_Witness ==
    /\ uCall = UCall("dbn.erase", "none")
    /\ nbr > dbn.k
    /\ \E n \in DOMAIN heap[bn].dom :
           /\ BaseOf(n) \notin dbn.variables
           /\ n \notin DOMAIN heap[dbn.kTBN].dom

(* C17 -- After unrollKTBN(dbn, nbr) has returned, the nodes of the        *)
(* returned graph are the nodes named encode(name, t) for the registered   *)
(* names and the slices 0..nbr-1, one each and no others, and every node   *)
(* of a slice from k on has the domain of its name's node of slice 0.      *)
C17_OneNodePerNameAndSlice ==
    uCall = UCall("unrollKTBN", "none") =>
        LET U == heap[bn]
        IN  /\ DOMAIN U.dom =
                   {TKey(name, t) : name \in dbn.variables, t \in 0..(nbr - 1)}
            /\ \A name \in dbn.variables :
                   /\ Cardinality({TKey(name, t) : t \in 0..(nbr - 1)}) = nbr
                   /\ \A t \in dbn.k..(nbr - 1) :
                          U.dom[TKey(name, t)] = U.dom[TKey(name, 0)]

\* two names with different domains, two slices added
C17_Witness ==
    /\ uCall = UCall("unrollKTBN", "none")
    /\ nbr = dbn.k + 2
    /\ dbn.variables = TemplateNames
    /\ Cardinality(DOMAIN heap[bn].dom) = 2 * nbr
    /\ \E n \in DOMAIN heap[bn].dom : SliceOf(n) = nbr - 1 /\ heap[bn].dom[n] = 3

(* C18 -- dbn.cpt(var)[key] = value puts value into the cells of the       *)
(* engine CPT of var's node whose labels agree with key once every         *)
(* (name, slice) of key is replaced by encode(name, slice), and changes no *)
(* other cell and nothing else; dbn.cpt(var)[key] with the same key then   *)
(* returns these cells, each holding value.                                *)
C18_WriteThenRead ==
    [][LET node == userToCodeName(dbn.separator, wKey'.var[1], wKey'.var[2])
           P    == heap[dbn.kTBN].cpt[node]
           sel  == {f \in DOMAIN P.tab :
                       \A u \in DOMAIN wKey'.key :
                           f[userToCodeName(dbn.separator, u[1], u[2])]
                               = wKey'.key[u]}
       IN  /\ uCall' = UCall("setitem", "none") =>
                  heap' = [heap EXCEPT ![dbn.kTBN].cpt[node].tab =
                             [f \in DOMAIN P.tab |->
                                 IF f \in sel THEN WrittenValue ELSE P.tab[f]]]
           /\ (/\ uCall = UCall("setitem", "none")
               /\ uCall' = UCall("getitem", "none")
               /\ rVal'.var = wKey.var
               /\ rVal'.key = wKey.key) =>
                  rVal'.val = [f \in sel |-> WrittenValue]]_vars

\* a write with partial evidence on a later slice was read back: more than
\* one cell and not the whole table
C18_Witness ==
    /\ uCall = UCall("getitem", "none")
    /\ rVal.key = wKey.key
    /\ \E u \in DOMAIN wKey.key : u[2] > 0
    /\ Cardinality(DOMAIN rVal.val) > 1
    /\ Cardinality(DOMAIN rVal.val)
           < Cardinality(DOMAIN heap[dbn.kTBN].cpt[
                 userToCodeName(dbn.separator, wKey.var[1], wKey.var[2])].tab)

----------------------------------------------------------------------------
\* the entry of arcs() for the arc between two user keys
KeyString(var) ==
    <<"(", "'">> \o var[1] \o <<"'", ",", " ">> \o IntToStr(var[2]) \o <<")">>

ArcEntry(tail, head) ==
    KeyString(tail) \o <<" ", "-", ">", " ">> \o KeyString(head)

(* C19 -- In every reachable state, the list arcs() returns holds the      *)
(* entry "('n1', t1) -> ('n2', t2)" if and only if addArc((n1,t1),(n2,t2)) *)
(* has returned and the arc has not been removed since by eraseArc or by   *)
(* erase of n1 or n2; the list has one entry per such arc.                 *)
C19_ArcsListIsLiveArcs ==
    /\ liveArcs \subseteq UserKeys \X UserKeys
    /\ arcsList = {ArcEntry(a[1], a[2]) : a \in liveArcs}
    /\ Cardinality(arcsList) = Cardinality(liveArcs)
    /\ Cardinality(arcs) = Cardinality(liveArcs)

\* after an erase, an arc added before is still listed
C19_Witness ==
    /\ lastCall = Call("erase", "none")
    /\ liveArcs # {}
    /\ \E a \in liveArcs : ArcEntry(a[1], a[2]) \in arcsList /\ a[1][2] < a[2][2]

(* C20 -- Every facade call that encodes a user key whose name holds the   *)
(* separator (idFromName, cpt, eraseArc, and addArc once its slices have   *)
(* passed the order and horizon tests) raises the ValueError of the        *)
(* separator check.                                                        *)
C20_EncodeRefusesSeparator ==
    \A var \in UserKeys :
        Contains(var[1], separator) =>
            /\ idFromName(var) = "ValueError_separator"
            /\ cpt(var).err = "ValueError_separator"
            /\ \A other \in UserKeys :
                   /\ eraseArc(var, other).err = "ValueError_separator"
                   /\ (var[2] <= other[2] /\ other[2] < k) =>
                          addArc(var, other).err = "ValueError_separator"

----------------------------------------------------------------------------
(* C21 -- Every call unrollKTBN(dbn, nbr) with nbr >= k returns: no arc    *)
(* into a new slice is added before both its end nodes exist, whatever the *)
(* order in which the registered names are met and whatever arcs the       *)
(* template has inside slice k-1.                                          *)
C21_UnrollAlwaysCompletes ==
    (uCall.op = "unrollKTBN" /\ nbr >= dbn.k) => uCall.err = "none"

\* the registered names whose node of slice k-1 has no parent in the template
Parentless ==
    {v \in dbn.variables : Parents(heap[dbn.kTBN], TKey(v, dbn.k - 1)) = {}}

\* the CPT of a node without parents holds, label by label, the values of
\* the CPT of another such node
SameMarginal(g, node, h, other) ==
    /\ g.cpt[node].vars = {node}
    /\ h.cpt[other].vars = {other}
    /\ g.dom[node] = h.dom[other]
    /\ \A l \in Labels(g.dom[node]) :
           g.cpt[node].tab[(node :> l)] = h.cpt[other].tab[(other :> l)]

(* C22 as stated -- When unrollKTBN(dbn, nbr) has returned, the node of    *)
(* every new slice of a registered name whose node of slice k-1 has no     *)
(* incoming arc has no incident arc, neither incoming nor outgoing, and    *)
(* carries the marginal of the name's node of slice k-1; and a call on a   *)
(* template where every name is such a name returns.                       *)
C22_ParentlessIsDisconnected ==
    (uCall.op = "unrollKTBN" /\ nbr >= dbn.k) =>
        /\ Parentless = dbn.variables => uCall.err = "none"
        /\ uCall.err = "none" =>
               \A v \in Parentless : \A t \in dbn.k..(nbr - 1) :
                   /\ \A a \in heap[bn].arcs :
                          a[1] # TKey(v, t) /\ a[2] # TKey(v, t)
                   /\ SameMarginal(heap[bn], TKey(v, t),
                                   heap[dbn.kTBN], TKey(v, dbn.k - 1))

(* C22 amended -- When unrollKTBN(dbn, nbr) has returned, the node of      *)
(* every new slice of a registered name whose node of slice k-1 has no     *)
(* incoming arc has no incoming arc and carries the marginal of the name's *)
(* node of slice k-1; it is the tail of the arcs that repeat the           *)
(* template's arcs out of the name's nodes into slice k-1.  A call with    *)
(* nbr >= k raises only if some name's node of slice k-1 has a parent in   *)
(* slice k-1; on a template where no node of slice k-1 has an incoming     *)
(* arc it returns.                                                         *)
C22_ParentlessHasNoParentsAndKeepsMarginal ==
    (uCall.op = "unrollKTBN" /\ nbr >= dbn.k) =>
        /\ uCall.err # "none" =>
               \E v \in dbn.variables \ Parentless :
                   \E p \in Parents(heap[dbn.kTBN], TKey(v, dbn.k - 1)) :
                       SliceOf(p) = dbn.k - 1
        /\ uCall.err = "none" =>
               \A v \in Parentless : \A t \in dbn.k..(nbr - 1) :
                   /\ Parents(heap[bn], TKey(v, t)) = {}
                   /\ SameMarginal(heap[bn], TKey(v, t),
                                   heap[dbn.kTBN], TKey(v, dbn.k - 1))
                   /\ \A hb \in dbn.variables : \A d \in 0..(dbn.k - 1) :
                          t + d < nbr =>
                              ((<<TKey(v, t), TKey(hb, t + d)>> \in heap[bn].arcs)
                                  <=> (<<TKey(v, dbn.k - 1 - d), TKey(hb, dbn.k - 1)>>
                                           \in heap[dbn.kTBN].arcs))

\* two slices were added; a name without parents in slice k-1 is the parent
\* of the other name there, and its node of the last slice has a child
C22_Witness ==
    /\ uCall = UCall("unrollKTBN", "none")
    /\ nbr = dbn.k + 2
    /\ \E v \in Parentless :
           /\ dbn.variables \ Parentless # {}
           /\ \E a \in heap[bn].arcs : a[1] = TKey(v, nbr - 1)

----------------------------------------------------------------------------
(* C23 -- When unrollKTBN(dbn, nbr) has returned, for every registered     *)
(* name and every slice below nbr, the node name getPosterior builds for   *)
(* the key (name, slice) and the node name plotFollow builds for it are    *)
(* encode(name, slice) with the template's separator, the name of the node *)
(* that unrollKTBN created for that key.                                   *)
C23_HelpersBuildTheFlatKey ==
    uCall = UCall("unrollKTBN", "none") =>
        \A name \in dbn.variables : \A t \in 0..(nbr - 1) :
            /\ getPosteriorKey(<<name, t>>) = TKey(name, t)
            /\ getPosteriorKey(<<name, t>>) \in DOMAIN heap[bn].dom
            /\ plotFollowKey(<<name, t>>) = TKey(name, t)
            /\ plotFollowKey(<<name, t>>) \in DOMAIN heap[bn].dom

====
